---- MODULE Spec2Model ----
(***************************************************************************)
(* Grid path-finding: NavigationGrid (grid.py), the primitives of utils.py *)
(* and the six searches of SearchTechniques (algorithms.py).               *)
(*                                                                         *)
(* A coordinate is a pair <<r, c>>.  Python's None is the empty tuple.     *)
(* Step costs are kept in thousandths (1.0 -> 1000, 1.414 -> 1414), so     *)
(* cumulative costs are exact integers.                                     *)
(* A SearchNode is represented by its coord: no search reads a node's      *)
(* ancestor, g_score or level.                                              *)
(* One action is one iteration of a search loop (or one entry / return of  *)
(* the recursive depth-limited helper), so the intermediate states of a    *)
(* run are states of the model.                                            *)
(***************************************************************************)
EXTENDS Integers, Sequences, FiniteSets, TLC

\* ---- bounds of the model -------------------------------------------------
\* grids of at most MaxRows x MaxCols and at most MaxCells cells, with at
\* most MaxBlocked walls; depth_cap and upper_limit up to MaxDepth; run_ucs
\* called up to MaxRuns times
MaxRows == 3
MaxCols == 3
MaxCells == 9
MaxBlocked == 1
MaxDepth == 3
MaxRuns == 2
\* a PathfindingHeap driven on its own: up to MaxPushes pushes, ranks 0..MaxRank
MaxPushes == 3
MaxRank == 2
\* the comparison of a call with its repetition is made on grids of at most
\* MaxRenderCells cells
MaxRenderCells == 6
\* the largest grids, in cells, on which the calls are followed to their return
MaxLiveCells == 6
\* trace_back_path called directly: the parent maps have at most MaxLinks keys
MaxLinks == 3

\* ---- grid.py: cell states ------------------------------------------------
CELL_OPEN == 0
CELL_BLOCK == 1
CELL_BEGIN == 2
CELL_GOAL == 3

None == << >>

VARIABLES
    \* NavigationGrid
    rows, cols, matrix, start_pos, goal_pos,
    front_nodes, history, active_node, trajectory,
    \* SearchTechniques.latency (0, or 1 for any wait_time > 0) and the picture
    \* render_frame drew last
    latency, display,
    \* the call in progress and what it returned
    algo, status, result,
    \* run_bfs / run_dfs / run_ucs locals
    work_queue, seen_coords, work_stack, visited_registry,
    heap_data, insertion_order, permanent_set, accumulated_costs,
    path_tracker,
    \* run_dls / run_iddfs / _perform_recursive_dls
    depth_cap, upper_limit, current_max, frames, links, explored,
    \* run_bi_search locals
    fwd_work, bwd_work, fwd_map, bwd_map, side,
    \* how many times run_bi_search has called fwd_work.popleft() and
    \* bwd_work.popleft() in this call
    fwd_pops, bwd_pops,
    \* order in which cells were expanded in this call, and the record of
    \* the previous call on the same grid
    expansion, run_no, previous,
    \* a PathfindingHeap driven directly (heap_data, insertion_order): how many
    \* pushes and pops were made and what the last operation did
    pushes, pops, last_op,
    \* fetch_adjacent_nodes called directly: its arguments and what it returned
    probe

gridVars == <<rows, cols, matrix, start_pos, goal_pos>>
renderVars == <<front_nodes, history, active_node, trajectory>>
viewVars == <<latency, display>>
bfsVars == <<work_queue, seen_coords>>
dfsVars == <<work_stack, visited_registry>>
ucsVars == <<heap_data, insertion_order, permanent_set, accumulated_costs>>
dlsVars == <<depth_cap, upper_limit, current_max, frames, links, explored>>
biVars == <<fwd_work, bwd_work, fwd_map, bwd_map, side, fwd_pops, bwd_pops>>
runVars == <<run_no, previous>>
heapLog == <<pushes, pops, last_op>>
unitVars == <<heapLog, probe>>

vars == <<gridVars, renderVars, viewVars, algo, status, result, bfsVars, dfsVars,
          ucsVars, path_tracker, dlsVars, biVars, expansion, runVars,
          unitVars>>

\* ---- helpers on sequences ------------------------------------------------
Range(s) == {s[i] : i \in 1..Len(s)}

Reverse(s) == [i \in 1..Len(s) |-> s[Len(s) + 1 - i]]

\* ---- utils.py ------------------------------------------------------------
\* mutant: "right" listed before "up"
offsets_right_first ==
    << <<0, 1>>, <<-1, 0>>, <<1, 0>>, <<1, 1>>, <<0, -1>>, <<-1, -1>> >>

offsets == << <<-1, 0>>, <<0, 1>>, <<1, 0>>, <<1, 1>>, <<0, -1>>, <<-1, -1>> >>

\* mutant: "<=" for "<" in the upper bounds
InBoundsInclusive(p, max_r, max_c) ==
    0 <= p[1] /\ p[1] <= max_r /\ 0 <= p[2] /\ p[2] <= max_c

InBounds(p, max_r, max_c) ==
    0 <= p[1] /\ p[1] < max_r /\ 0 <= p[2] /\ p[2] < max_c

\* mutant: the bounds test one short, the last row and column never offered
fetch_adjacent_interior(location, max_r, max_c) ==
    LET cand == [i \in 1..Len(offsets) |->
                    <<location[1] + offsets[i][1], location[2] + offsets[i][2]>>]
    IN  SelectSeq(cand, LAMBDA p : InBounds(p, max_r - 1, max_c - 1))

fetch_adjacent_nodes(location, max_r, max_c) ==
    LET cand == [i \in 1..Len(offsets) |->
                    <<location[1] + offsets[i][1], location[2] + offsets[i][2]>>]
    IN  SelectSeq(cand, LAMBDA p : InBounds(p, max_r, max_c))

Abs(x) == IF x < 0 THEN -x ELSE x

\* mutant: every step costs 1.0
compute_step_weight_flat(src, dest) == 1000

compute_step_weight(src, dest) ==
    IF Abs(src[1] - dest[1]) = 1 /\ Abs(src[2] - dest[2]) = 1 THEN 1414 ELSE 1000

\* trace_back_path: follow link_map from target until origin, then reverse.
\* TraceBack is the while loop, trace_back_path the whole function.
\* link_map[current] raises KeyError when current is not a key (None never
\* is one); a cycle that misses origin never ends, which shows as "loop"
\* once more links were followed than the map has keys.
RECURSIVE TraceBack(_, _, _, _, _)
TraceBack(link_map, current, origin, result_path, fuel) ==
    IF current = origin
    THEN [outcome |-> "path", path |-> result_path]
    ELSE IF current \notin DOMAIN link_map
    THEN [outcome |-> "KeyError", path |-> << >>]
    ELSE IF fuel = 0
    THEN [outcome |-> "loop", path |-> << >>]
    ELSE TraceBack(link_map, link_map[current], origin,
                   Append(result_path, link_map[current]), fuel - 1)

\* mutant: the collected cells are returned without "[::-1]"
trace_back_path_unreversed(link_map, target, origin) ==
    TraceBack(link_map, target, origin, <<target>>,
              Cardinality(DOMAIN link_map) + 1)

trace_back_path(link_map, target, origin) ==
    LET tb == TraceBack(link_map, target, origin, <<target>>,
                        Cardinality(DOMAIN link_map) + 1)
    IN  [outcome |-> tb.outcome, path |-> Reverse(tb.path)]

\* ---- grid.py -------------------------------------------------------------
\* mutant: the wall test left out
is_traversable_in_bounds(pos) == InBounds(pos, rows, cols)

is_traversable(pos) ==
    InBounds(pos, rows, cols) /\ matrix[pos] # CELL_BLOCK

Cells(r, c) == (0..(r - 1)) \X (0..(c - 1))

\* the matrix left by initialize_map / create_custom_grid
GridMatrix(r, c, blocks, s, g) ==
    [p \in Cells(r, c) |->
        IF p = g THEN CELL_GOAL
        ELSE IF p = s THEN CELL_BEGIN
        ELSE IF p \in blocks THEN CELL_BLOCK
        ELSE CELL_OPEN]

\* 8x8 open grid, start (4,4), goal (3,4)
ScenarioGrid ==
    [rows |-> 8, cols |-> 8, blocks |-> {}, start |-> <<4, 4>>, goal |-> <<3, 4>>]

\* 6x5 grid on which run_ucs first reaches (0,0) from (1,1) and then finds
\* the cheaper way through (1,0), leaving a stale tuple in the heap
RelaxGrid ==
    [rows |-> 6, cols |-> 5,
     blocks |-> {<<1, 3>>, <<3, 4>>, <<4, 1>>, <<4, 2>>, <<4, 3>>},
     start |-> <<5, 3>>, goal |-> <<0, 3>>]

\* 5x4 grid with two fewest-step routes of five steps from (4,2) to (0,0):
\* one with a single diagonal step, one with three
DetourGrid ==
    [rows |-> 5, cols |-> 4, blocks |-> {<<3, 1>>, <<3, 2>>},
     start |-> <<4, 2>>, goal |-> <<0, 0>>]

\* ---- state after construction ---------------------------------------------
NoCall ==
    /\ display = None
    /\ front_nodes = {} /\ history = {} /\ active_node = None /\ trajectory = << >>
    /\ algo = "idle" /\ status = "idle" /\ result = None
    /\ work_queue = << >> /\ seen_coords = {}
    /\ work_stack = << >> /\ visited_registry = {}
    /\ heap_data = {} /\ insertion_order = 0
    /\ permanent_set = {} /\ accumulated_costs = << >>
    /\ path_tracker = << >>
    /\ depth_cap = 0 /\ upper_limit = 0 /\ current_max = 0
    /\ frames = << >> /\ links = << >> /\ explored = {}
    /\ fwd_work = << >> /\ bwd_work = << >>
    /\ fwd_map = << >> /\ bwd_map = << >> /\ side = "fwd"
    /\ fwd_pops = 0 /\ bwd_pops = 0
    /\ expansion = << >> /\ run_no = 0
    /\ previous = [status |-> "idle", result |-> None, expansion |-> << >>]
    /\ pushes = 0 /\ pops = 0
    /\ last_op = [op |-> "none"]

\* fetch_adjacent_nodes has not been called on its own
NoProbe == probe = [op |-> "none"]

SetGrid(gr) ==
    /\ rows = gr.rows /\ cols = gr.cols
    /\ start_pos = gr.start /\ goal_pos = gr.goal
    /\ matrix = GridMatrix(gr.rows, gr.cols, gr.blocks, gr.start, gr.goal)

\* NavigationGrid.__init__ / initialize_map: random walls, then start and
\* goal drawn from the open cells, goal after start was removed.
GridsUpTo(cells) ==
    \/ \E r \in 1..MaxRows, c \in 1..MaxCols :
        /\ r * c <= cells
        /\ \E s \in Cells(r, c) :
          \E g \in Cells(r, c) \ {s} :
            \E b \in SUBSET (Cells(r, c) \ {s, g}) :
                /\ Cardinality(b) <= MaxBlocked
                /\ SetGrid([rows |-> r, cols |-> c, blocks |-> b,
                            start |-> s, goal |-> g])
    \/ SetGrid(ScenarioGrid)
    \/ SetGrid(RelaxGrid)
    \/ SetGrid(DetourGrid)

AnyGrid == GridsUpTo(MaxCells)

\* SearchTechniques(nav_grid, wait_time = 0): the searches run without drawing
Headless == latency = 0

Init ==
    /\ AnyGrid
    /\ NoCall
    /\ NoProbe
    /\ Headless

\* render_frame: the colour class of every cell, by the precedence of the
\* if / elif chain (the header text and the legend are left out)
render_frame(front, hist, active, traj) ==
    [p \in Cells(rows, cols) |->
        IF matrix[p] = CELL_BLOCK THEN "obstacle"
        ELSE IF p = start_pos THEN "origin"
        ELSE IF p = goal_pos THEN "destination"
        ELSE IF p \in Range(traj) THEN "path"
        ELSE IF p = active THEN "current"
        ELSE IF p \in front THEN "frontier"
        ELSE IF p \in hist THEN "visited"
        ELSE "blank"]

\* _refresh_view: draws only when latency > 0; the value is the picture on
\* display afterwards
refresh_view(front, hist, active, traj) ==
    IF latency > 0 THEN render_frame(front, hist, active, traj) ELSE display

\* clear_render_state, as the values the four fields take
ClearRender(front) ==
    /\ history' = {}
    /\ active_node' = None
    /\ trajectory' = << >>
    /\ front_nodes' = front

CanStart == status = "idle"

\* ---- run_bfs ---------------------------------------------------------------
\* run_bfs up to its while loop
BeginBFS ==
    /\ algo' = "bfs" /\ status' = "running" /\ result' = None
    /\ ClearRender({start_pos})
    /\ work_queue' = <<start_pos>>
    /\ seen_coords' = {start_pos}
    /\ path_tracker' = (start_pos :> None)
    /\ expansion' = << >>
    /\ run_no' = run_no + 1
    /\ UNCHANGED <<gridVars, unitVars, display, dfsVars, ucsVars, dlsVars,
                   biVars>>

StartBFS ==
    /\ CanStart
    /\ BeginBFS
    /\ UNCHANGED <<latency, previous>>

\* mutant: appendleft instead of append
RECURSIVE BFSDiscoverFront(_, _, _, _)
BFSDiscoverFront(pos, adj, i, st) ==
    IF i > Len(adj) THEN st
    ELSE LET \* st after the loop body has run for adj[i]
             after(s) ==
                 IF adj[i] \notin s.seen /\ is_traversable(adj[i])
                 THEN
                    [seen |-> s.seen \cup {adj[i]},
                     tracker |-> (adj[i] :> pos) @@ s.tracker,
                     queue |-> <<adj[i]>> \o s.queue,
                     front |-> s.front \cup {adj[i]}]
                 ELSE s
         IN  BFSDiscoverFront(pos, adj, i + 1,
                    CHOOSE t \in {after(s) : s \in {st}} : TRUE)

RECURSIVE BFSDiscover(_, _, _, _)
BFSDiscover(pos, adj, i, st) ==
    IF i > Len(adj) THEN st
    ELSE LET \* st after the loop body has run for adj[i]
             after(s) ==
                 IF adj[i] \notin s.seen /\ is_traversable(adj[i])
                 THEN
                    [seen |-> s.seen \cup {adj[i]},
                     tracker |-> (adj[i] :> pos) @@ s.tracker,
                     queue |-> Append(s.queue, adj[i]),
                     front |-> s.front \cup {adj[i]}]
                 ELSE s
         IN  BFSDiscover(pos, adj, i + 1,
                    CHOOSE t \in {after(s) : s \in {st}} : TRUE)

BFSExpand ==
    /\ algo = "bfs" /\ status = "running"
    /\ work_queue # << >>
    /\ LET pos == Head(work_queue)
           st == BFSDiscover(pos, fetch_adjacent_nodes(pos, rows, cols), 1,
                    [seen |-> seen_coords, tracker |-> path_tracker,
                     queue |-> Tail(work_queue), front |-> front_nodes \ {pos}])
       IN  /\ pos # goal_pos
           /\ pos # None
           /\ active_node' = pos
           /\ display' = refresh_view(front_nodes \ {pos}, history \cup {pos},
                                      pos, trajectory)
           /\ history' = history \cup {pos}
           /\ expansion' = Append(expansion, pos)
           /\ seen_coords' = st.seen
           /\ path_tracker' = st.tracker
           /\ work_queue' = st.queue
           /\ front_nodes' = st.front
    /\ UNCHANGED <<gridVars, unitVars, latency, trajectory, algo, status, result, dfsVars, ucsVars,
                   dlsVars, biVars, runVars>>

\* fetch_adjacent_nodes unpacks its location ("r, c = location"): on None,
\* the start_pos of a grid that has none, that is a TypeError, raised after
\* the popped value was recorded
BFSTypeError ==
    /\ algo = "bfs" /\ status = "running"
    /\ work_queue # << >>
    /\ Head(work_queue) = None
    /\ None # goal_pos
    /\ work_queue' = Tail(work_queue)
    /\ active_node' = None
    /\ display' = refresh_view(front_nodes \ {None}, history \cup {None},
                               None, trajectory)
    /\ history' = history \cup {None}
    /\ expansion' = Append(expansion, None)
    /\ front_nodes' = front_nodes \ {None}
    /\ status' = "TypeError" /\ result' = None
    /\ UNCHANGED <<gridVars, unitVars, latency, trajectory, algo, seen_coords, path_tracker,
                   dfsVars, ucsVars, dlsVars, biVars, runVars>>

\* the goal branch shared by run_bfs, run_dfs, run_ucs: trace_back_path, then
\* the route is stored and returned; a fault in trace_back_path leaves the
\* call at the popped cell
\* mutant: the route is stored in trajectory only when drawing is on, and the
\* call returns what trajectory holds
FinishFromTrajectory(pos, front, link_map) ==
    LET tb == trace_back_path(link_map, goal_pos, start_pos)
        shown == IF latency > 0 THEN tb.path ELSE trajectory
    IN  /\ history' = history \cup {pos}
        /\ expansion' = Append(expansion, pos)
        /\ front_nodes' = front
        /\ status' = tb.outcome
        /\ result' = IF tb.outcome = "path" THEN shown ELSE None
        /\ trajectory' = IF tb.outcome = "path" THEN shown ELSE trajectory
        /\ active_node' = IF tb.outcome = "path" THEN None ELSE pos
        /\ display' = IF tb.outcome = "path"
                      THEN refresh_view(front, history \cup {pos}, None, shown)
                      ELSE refresh_view(front, history \cup {pos}, pos, trajectory)

Finish(pos, front, link_map) ==
    LET tb == trace_back_path(link_map, goal_pos, start_pos)
    IN  /\ history' = history \cup {pos}
        /\ expansion' = Append(expansion, pos)
        /\ front_nodes' = front
        /\ status' = tb.outcome
        /\ result' = IF tb.outcome = "path" THEN tb.path ELSE None
        /\ trajectory' = IF tb.outcome = "path" THEN tb.path ELSE trajectory
        /\ active_node' = IF tb.outcome = "path" THEN None ELSE pos
        /\ display' = IF tb.outcome = "path"
                      THEN refresh_view(front, history \cup {pos}, None, tb.path)
                      ELSE refresh_view(front, history \cup {pos}, pos, trajectory)

\* mutant: the goal branch stamps the reached cell into the matrix
BFSGoalStamping ==
    /\ algo = "bfs" /\ status = "running"
    /\ work_queue # << >>
    /\ Head(work_queue) = goal_pos
    /\ work_queue' = Tail(work_queue)
    /\ Finish(goal_pos, front_nodes \ {goal_pos}, path_tracker)
    /\ matrix' = [matrix EXCEPT ![goal_pos] = CELL_BEGIN]
    /\ UNCHANGED <<rows, cols, start_pos, goal_pos, unitVars, latency, algo, seen_coords,
                   path_tracker, dfsVars, ucsVars, dlsVars, biVars, runVars>>

BFSGoal ==
    /\ algo = "bfs" /\ status = "running"
    /\ work_queue # << >>
    /\ Head(work_queue) = goal_pos
    /\ work_queue' = Tail(work_queue)
    /\ Finish(goal_pos, front_nodes \ {goal_pos}, path_tracker)
    /\ UNCHANGED <<gridVars, unitVars, latency, algo, seen_coords, path_tracker, dfsVars, ucsVars,
                   dlsVars, biVars, runVars>>

BFSExhausted ==
    /\ algo = "bfs" /\ status = "running"
    /\ work_queue = << >>
    /\ status' = "none" /\ result' = None
    /\ UNCHANGED <<gridVars, unitVars, viewVars, renderVars, algo, bfsVars, dfsVars, ucsVars,
                   path_tracker, dlsVars, biVars, expansion, runVars>>

\* ---- run_dfs ---------------------------------------------------------------
\* run_dfs up to its while loop
BeginDFS ==
    /\ algo' = "dfs" /\ status' = "running" /\ result' = None
    /\ ClearRender({start_pos})
    /\ work_stack' = <<start_pos>>
    /\ visited_registry' = {}
    /\ path_tracker' = (start_pos :> None)
    /\ expansion' = << >>
    /\ run_no' = run_no + 1
    /\ UNCHANGED <<gridVars, unitVars, display, bfsVars, ucsVars, dlsVars,
                   biVars>>

StartDFS ==
    /\ CanStart
    /\ BeginDFS
    /\ UNCHANGED <<latency, previous>>

\* the top of the stack is the end of the sequence (list.pop / list.append)
Top(stack) == stack[Len(stack)]

Pop(stack) == SubSeq(stack, 1, Len(stack) - 1)

\* mutant: "adj not in visited_registry" left out of the push test
RECURSIVE DFSPushVisited(_, _, _, _)
DFSPushVisited(pos, adj, i, st) ==
    IF i < 1 THEN st
    ELSE LET after(s) ==
                 IF is_traversable(adj[i])
                 THEN
                    [visited |-> s.visited,
                     tracker |-> (adj[i] :> pos) @@ s.tracker,
                     stack |-> Append(s.stack, adj[i]),
                     front |-> s.front \cup {adj[i]}]
                 ELSE s
         IN  DFSPushVisited(pos, adj, i - 1,
                    CHOOSE t \in {after(s) : s \in {st}} : TRUE)

\* mutant: the neighbours pushed in the forward order, without reversed()
RECURSIVE DFSPushForward(_, _, _, _)
DFSPushForward(pos, adj, i, st) ==
    IF i < 1 THEN st
    ELSE LET j == Len(adj) - i + 1
             after(s) ==
                 IF adj[j] \notin s.visited /\ is_traversable(adj[j])
                 THEN
                    [visited |-> s.visited,
                     tracker |-> (adj[j] :> pos) @@ s.tracker,
                     stack |-> Append(s.stack, adj[j]),
                     front |-> s.front \cup {adj[j]}]
                 ELSE s
         IN  DFSPushForward(pos, adj, i - 1,
                    CHOOSE t \in {after(s) : s \in {st}} : TRUE)

\* for adj in reversed(neighbors): i runs from Len(adj) down to 1
RECURSIVE DFSPush(_, _, _, _)
DFSPush(pos, adj, i, st) ==
    IF i < 1 THEN st
    ELSE LET \* st after the loop body has run for adj[i]
             after(s) ==
                 IF adj[i] \notin s.visited /\ is_traversable(adj[i])
                 THEN
                    [visited |-> s.visited,
                     tracker |-> (adj[i] :> pos) @@ s.tracker,
                     stack |-> Append(s.stack, adj[i]),
                     front |-> s.front \cup {adj[i]}]
                 ELSE s
         IN  DFSPush(pos, adj, i - 1,
                    CHOOSE t \in {after(s) : s \in {st}} : TRUE)

\* mutant: the top of the stack is read, not popped, before the visited test
DFSSkipPeek ==
    /\ algo = "dfs" /\ status = "running"
    /\ work_stack # << >>
    /\ Top(work_stack) \in visited_registry
    /\ UNCHANGED vars

DFSSkip ==
    /\ algo = "dfs" /\ status = "running"
    /\ work_stack # << >>
    /\ Top(work_stack) \in visited_registry
    /\ work_stack' = Pop(work_stack)
    /\ UNCHANGED <<gridVars, unitVars, viewVars, renderVars, algo, status, result, visited_registry,
                   bfsVars, ucsVars, path_tracker, dlsVars, biVars, expansion,
                   runVars>>

DFSExpand ==
    /\ algo = "dfs" /\ status = "running"
    /\ work_stack # << >>
    /\ LET pos == Top(work_stack)
           adj == fetch_adjacent_nodes(pos, rows, cols)
           st == DFSPush(pos, adj, Len(adj),
                    [visited |-> visited_registry \cup {pos},
                     tracker |-> path_tracker,
                     stack |-> Pop(work_stack), front |-> front_nodes \ {pos}])
       IN  /\ pos \notin visited_registry
           /\ pos # goal_pos
           /\ active_node' = pos
           /\ display' = refresh_view(front_nodes \ {pos}, history \cup {pos},
                                      pos, trajectory)
           /\ history' = history \cup {pos}
           /\ expansion' = Append(expansion, pos)
           /\ visited_registry' = st.visited
           /\ path_tracker' = st.tracker
           /\ work_stack' = st.stack
           /\ front_nodes' = st.front
    /\ UNCHANGED <<gridVars, unitVars, latency, trajectory, algo, status, result, bfsVars, ucsVars,
                   dlsVars, biVars, runVars>>

DFSGoal ==
    /\ algo = "dfs" /\ status = "running"
    /\ work_stack # << >>
    /\ Top(work_stack) = goal_pos
    /\ goal_pos \notin visited_registry
    /\ work_stack' = Pop(work_stack)
    /\ visited_registry' = visited_registry \cup {goal_pos}
    /\ Finish(goal_pos, front_nodes \ {goal_pos}, path_tracker)
    /\ UNCHANGED <<gridVars, unitVars, latency, algo, bfsVars, ucsVars, path_tracker, dlsVars,
                   biVars, runVars>>

DFSExhausted ==
    /\ algo = "dfs" /\ status = "running"
    /\ work_stack = << >>
    /\ status' = "none" /\ result' = None
    /\ UNCHANGED <<gridVars, unitVars, viewVars, renderVars, algo, bfsVars, dfsVars, ucsVars,
                   path_tracker, dlsVars, biVars, expansion, runVars>>

\* ---- PathfindingHeap (utils.py) and run_ucs --------------------------------
\* _data holds tuples (rank, _insertion_order, entry); heapq orders them as
\* Python orders tuples, first by rank and then by insertion order
\* mutant: tuples of (rank, entry), without the insertion order
TupleLessRankOnly(a, b) == a.rank < b.rank

\* mutant: the sequence number counted downwards, newest tuple first
TupleLessNewestFirst(a, b) ==
    \/ a.rank < b.rank
    \/ a.rank = b.rank /\ a.order > b.order

TupleLess(a, b) ==
    \/ a.rank < b.rank
    \/ a.rank = b.rank /\ a.order < b.order

\* e may be what heappop returns: no stored tuple is smaller
HeapTop(e, data) == e \in data /\ \A f \in data : ~TupleLess(f, e)

HeapPush(data, order, entry, rank) ==
    data \cup {[rank |-> rank, order |-> order, coord |-> entry]}

\* run_ucs up to its while loop
BeginUCS ==
    /\ algo' = "ucs" /\ status' = "running" /\ result' = None
    /\ ClearRender({start_pos})
    /\ heap_data' = HeapPush({}, 0, start_pos, 0)
    /\ insertion_order' = 1
    /\ permanent_set' = {}
    /\ path_tracker' = (start_pos :> None)
    /\ accumulated_costs' = (start_pos :> 0)
    /\ expansion' = << >>
    /\ run_no' = run_no + 1
    /\ UNCHANGED <<gridVars, unitVars, display, bfsVars, dfsVars, dlsVars,
                   biVars>>

StartUCS ==
    /\ CanStart
    /\ BeginUCS
    /\ UNCHANGED <<latency, previous>>

\* run_ucs called again on the same grid once the first call has returned
\* (the "UCS" button pressed twice); previous keeps what the first call did
RerunUCS ==
    /\ algo = "ucs" /\ status \in {"path", "none"}
    /\ run_no < MaxRuns
    /\ previous' = [status |-> status, result |-> result,
                    expansion |-> expansion]
    /\ BeginUCS
    /\ UNCHANGED latency

\* mutant: "<=" for "<" in the cost test
RECURSIVE UCSRelaxOnTie(_, _, _, _)
UCSRelaxOnTie(pos, adj, i, st) ==
    IF i > Len(adj) THEN st
    ELSE LET \* st after the loop body has run for adj[i]
             after(s) ==
                 IF /\ is_traversable(adj[i])
                    /\ \/ adj[i] \notin DOMAIN s.costs
                       \/ s.costs[pos] + compute_step_weight(pos, adj[i])
                              <= s.costs[adj[i]]
                 THEN
                    [costs |-> (adj[i] :> s.costs[pos]
                                   + compute_step_weight(pos, adj[i])) @@ s.costs,
                     tracker |-> (adj[i] :> pos) @@ s.tracker,
                     data |-> HeapPush(s.data, s.order, adj[i],
                                       s.costs[pos] + compute_step_weight(pos, adj[i])),
                     order |-> s.order + 1,
                     front |-> s.front \cup {adj[i]}]
                 ELSE s
         IN  UCSRelaxOnTie(pos, adj, i + 1,
                    CHOOSE t \in {after(s) : s \in {st}} : TRUE)

RECURSIVE UCSRelax(_, _, _, _)
UCSRelax(pos, adj, i, st) ==
    IF i > Len(adj) THEN st
    ELSE LET \* st after the loop body has run for adj[i]
             after(s) ==
                 IF /\ is_traversable(adj[i])
                    /\ \/ adj[i] \notin DOMAIN s.costs
                       \/ s.costs[pos] + compute_step_weight(pos, adj[i])
                              < s.costs[adj[i]]
                 THEN
                    [costs |-> (adj[i] :> s.costs[pos]
                                   + compute_step_weight(pos, adj[i])) @@ s.costs,
                     tracker |-> (adj[i] :> pos) @@ s.tracker,
                     data |-> HeapPush(s.data, s.order, adj[i],
                                       s.costs[pos] + compute_step_weight(pos, adj[i])),
                     order |-> s.order + 1,
                     front |-> s.front \cup {adj[i]}]
                 ELSE s
         IN  UCSRelax(pos, adj, i + 1,
                    CHOOSE t \in {after(s) : s \in {st}} : TRUE)

UCSSkip ==
    /\ algo = "ucs" /\ status = "running"
    /\ \E e \in heap_data :
        /\ HeapTop(e, heap_data)
        /\ e.coord \in permanent_set
        /\ heap_data' = heap_data \ {e}
    /\ UNCHANGED <<gridVars, unitVars, viewVars, renderVars, algo, status, result, bfsVars, dfsVars,
                   insertion_order, permanent_set, accumulated_costs,
                   path_tracker, dlsVars, biVars, expansion, runVars>>

UCSExpand ==
    /\ algo = "ucs" /\ status = "running"
    /\ \E e \in heap_data :
        LET pos == e.coord
            st == UCSRelax(pos, fetch_adjacent_nodes(pos, rows, cols), 1,
                    [costs |-> accumulated_costs, tracker |-> path_tracker,
                     data |-> heap_data \ {e}, order |-> insertion_order,
                     front |-> front_nodes \ {pos}])
        IN  /\ HeapTop(e, heap_data)
            /\ pos \notin permanent_set
            /\ pos # goal_pos
            /\ permanent_set' = permanent_set \cup {pos}
            /\ active_node' = pos
            /\ display' = refresh_view(front_nodes \ {pos}, history \cup {pos},
                                       pos, trajectory)
            /\ history' = history \cup {pos}
            /\ expansion' = Append(expansion, pos)
            /\ accumulated_costs' = st.costs
            /\ path_tracker' = st.tracker
            /\ heap_data' = st.data
            /\ insertion_order' = st.order
            /\ front_nodes' = st.front
    /\ UNCHANGED <<gridVars, unitVars, latency, trajectory, algo, status, result, bfsVars, dfsVars,
                   dlsVars, biVars, runVars>>

\* mutant: the goal test made when the goal is generated, not when it is popped
UCSGoalOnDiscovery ==
    /\ algo = "ucs" /\ status = "running"
    /\ goal_pos \in DOMAIN path_tracker
    /\ Finish(goal_pos, front_nodes \ {goal_pos}, path_tracker)
    /\ UNCHANGED <<gridVars, unitVars, latency, algo, bfsVars, dfsVars, ucsVars,
                   path_tracker, dlsVars, biVars, runVars>>

UCSGoal ==
    /\ algo = "ucs" /\ status = "running"
    /\ \E e \in heap_data :
        /\ HeapTop(e, heap_data)
        /\ e.coord = goal_pos
        /\ goal_pos \notin permanent_set
        /\ heap_data' = heap_data \ {e}
    /\ permanent_set' = permanent_set \cup {goal_pos}
    /\ Finish(goal_pos, front_nodes \ {goal_pos}, path_tracker)
    /\ UNCHANGED <<gridVars, unitVars, latency, algo, bfsVars, dfsVars, insertion_order,
                   accumulated_costs, path_tracker, dlsVars, biVars, runVars>>

UCSExhausted ==
    /\ algo = "ucs" /\ status = "running"
    /\ heap_data = {}
    /\ status' = "none" /\ result' = None
    /\ UNCHANGED <<gridVars, unitVars, viewVars, renderVars, algo, bfsVars, dfsVars, ucsVars,
                   path_tracker, dlsVars, biVars, expansion, runVars>>

\* ---- run_dls / _perform_recursive_dls / run_iddfs ---------------------------
\* frames is the call stack of _perform_recursive_dls, innermost call last.
\* A frame is [node, remaining, next]: next = 0 before the body has run,
\* afterwards the index in fetch_adjacent_nodes(node) at which the second
\* for loop continues.
Frame(current, remaining_depth) ==
    [node |-> current, remaining |-> remaining_depth, next |-> 0]

\* run_dls(depth_cap) up to the outermost call of the helper
BeginDLS(d) ==
    /\ depth_cap' = d /\ frames' = <<Frame(start_pos, d)>>
    /\ algo' = "dls" /\ status' = "running" /\ result' = None
    /\ ClearRender({})
    /\ links' = (start_pos :> None)
    /\ explored' = {}
    /\ expansion' = << >>
    /\ run_no' = run_no + 1
    /\ UNCHANGED <<gridVars, unitVars, display, bfsVars, dfsVars, ucsVars,
                   path_tracker, upper_limit, current_max, biVars>>

StartDLS ==
    /\ CanStart
    /\ \E d \in 0..MaxDepth : BeginDLS(d)
    /\ UNCHANGED <<latency, previous>>

\* run_iddfs(upper_limit) up to its for loop
BeginIDDFS(u) ==
    /\ upper_limit' = u
    /\ algo' = "iddfs" /\ status' = "running" /\ result' = None
    /\ current_max' = 0
    /\ frames' = << >>
    /\ run_no' = run_no + 1
    /\ UNCHANGED <<gridVars, unitVars, display, renderVars, bfsVars, dfsVars,
                   ucsVars, path_tracker, depth_cap, links, explored, biVars,
                   expansion>>

StartIDDFS ==
    /\ CanStart
    /\ \E u \in 0..MaxDepth : BeginIDDFS(u)
    /\ UNCHANGED <<latency, previous>>

\* mutant: the budgets tried from upper_limit downwards
IDDFSIterateDescending ==
    /\ algo = "iddfs" /\ status = "running"
    /\ frames = << >>
    /\ current_max <= upper_limit
    /\ ClearRender({})
    /\ frames' = <<Frame(start_pos, upper_limit - current_max)>>
    /\ links' = (start_pos :> None)
    /\ explored' = {}
    /\ current_max' = current_max + 1
    /\ expansion' = << >>
    /\ UNCHANGED <<gridVars, unitVars, viewVars, algo, status, result, bfsVars, dfsVars, ucsVars,
                   path_tracker, depth_cap, upper_limit, biVars, runVars>>

\* one turn of "for current_max in range(upper_limit + 1)"
IDDFSIterate ==
    /\ algo = "iddfs" /\ status = "running"
    /\ frames = << >>
    /\ current_max <= upper_limit
    /\ ClearRender({})
    /\ frames' = <<Frame(start_pos, current_max)>>
    /\ links' = (start_pos :> None)
    /\ explored' = {}
    /\ current_max' = current_max + 1
    /\ expansion' = << >>
    /\ UNCHANGED <<gridVars, unitVars, viewVars, algo, status, result, bfsVars, dfsVars, ucsVars,
                   path_tracker, depth_cap, upper_limit, biVars, runVars>>

IDDFSExhausted ==
    /\ algo = "iddfs" /\ status = "running"
    /\ frames = << >>
    /\ current_max > upper_limit
    /\ status' = "none" /\ result' = None
    /\ UNCHANGED <<gridVars, unitVars, viewVars, renderVars, algo, bfsVars, dfsVars, ucsVars,
                   path_tracker, dlsVars, biVars, expansion, runVars>>

\* run_dls returns what the outermost call returned
DLSExhausted ==
    /\ algo = "dls" /\ status = "running"
    /\ frames = << >>
    /\ status' = "none" /\ result' = None
    /\ UNCHANGED <<gridVars, unitVars, viewVars, renderVars, algo, bfsVars, dfsVars, ucsVars,
                   path_tracker, dlsVars, biVars, expansion, runVars>>

\* mutant: the budget test written as "remaining_depth < 0"
DepthExhaustedBelowZero(remaining_depth) == remaining_depth < 0

\* "if remaining_depth <= 0"
DepthExhausted(remaining_depth) == remaining_depth <= 0

InDLS == algo \in {"dls", "iddfs"} /\ status = "running" /\ frames # << >>

\* mutant: the is_traversable test left out of the helper's loops
EligibleUnexplored(loc) == loc \notin explored

Eligible(loc) == loc \notin explored /\ is_traversable(loc)

\* the goal test at the head of the body: the route is returned through
\* every pending call ("if outcome: return outcome")
DLSGoal ==
    /\ InDLS
    /\ Top(frames).next = 0
    /\ Top(frames).node = goal_pos
    /\ frames' = << >>
    /\ Finish(goal_pos, front_nodes \ {goal_pos}, links)
    /\ UNCHANGED <<gridVars, unitVars, latency, algo, bfsVars, dfsVars, ucsVars, path_tracker,
                   depth_cap, upper_limit, current_max, links, explored,
                   biVars, runVars>>

\* mutant: explored.add(current) placed above the depth test
DLSCutoffMarking ==
    /\ InDLS
    /\ LET f == Top(frames)
       IN  /\ f.next = 0
           /\ f.node # goal_pos
           /\ DepthExhausted(f.remaining)
           /\ active_node' = f.node
           /\ display' = refresh_view(front_nodes \ {f.node},
                                      history \cup {f.node}, f.node, trajectory)
           /\ history' = history \cup {f.node}
           /\ expansion' = Append(expansion, f.node)
           /\ front_nodes' = front_nodes \ {f.node}
           /\ explored' = explored \cup {f.node}
    /\ frames' = Pop(frames)
    /\ UNCHANGED <<gridVars, unitVars, latency, trajectory, algo, status, result, bfsVars, dfsVars,
                   ucsVars, path_tracker, depth_cap, upper_limit, current_max,
                   links, biVars, runVars>>

\* "if remaining_depth <= 0: return None"
DLSCutoff ==
    /\ InDLS
    /\ LET f == Top(frames)
       IN  /\ f.next = 0
           /\ f.node # goal_pos
           /\ DepthExhausted(f.remaining)
           /\ active_node' = f.node
           /\ display' = refresh_view(front_nodes \ {f.node},
                                      history \cup {f.node}, f.node, trajectory)
           /\ history' = history \cup {f.node}
           /\ expansion' = Append(expansion, f.node)
           /\ front_nodes' = front_nodes \ {f.node}
    /\ frames' = Pop(frames)
    /\ UNCHANGED <<gridVars, unitVars, latency, trajectory, algo, status, result, bfsVars, dfsVars,
                   ucsVars, path_tracker, depth_cap, upper_limit, current_max,
                   links, explored, biVars, runVars>>

\* the body up to the second for loop: explored.add and the frontier marks
DLSEnter ==
    /\ InDLS
    /\ LET f == Top(frames)
           adjacent == fetch_adjacent_nodes(f.node, rows, cols)
       IN  /\ f.next = 0
           /\ f.node # goal_pos
           /\ ~DepthExhausted(f.remaining)
           /\ active_node' = f.node
           /\ display' = refresh_view(front_nodes \ {f.node},
                                      history \cup {f.node}, f.node, trajectory)
           /\ history' = history \cup {f.node}
           /\ expansion' = Append(expansion, f.node)
           /\ explored' = explored \cup {f.node}
           /\ front_nodes' = (front_nodes \ {f.node}) \cup
                {loc \in Range(adjacent) :
                    loc \notin explored \cup {f.node} /\ is_traversable(loc)}
           /\ frames' = [frames EXCEPT ![Len(frames)].next = 1]
    /\ UNCHANGED <<gridVars, unitVars, latency, trajectory, algo, status, result, bfsVars, dfsVars,
                   ucsVars, path_tracker, depth_cap, upper_limit, current_max,
                   links, biVars, runVars>>

\* the second for loop reaches the next loc that passes the test and calls
\* the helper on it
DLSDescend ==
    /\ InDLS
    /\ LET f == Top(frames)
           adjacent == fetch_adjacent_nodes(f.node, rows, cols)
       IN  /\ f.next >= 1
           /\ \E j \in f.next..Len(adjacent) :
                /\ Eligible(adjacent[j])
                /\ \A k \in f.next..(j - 1) : ~Eligible(adjacent[k])
                /\ links' = (adjacent[j] :> f.node) @@ links
                /\ frames' = Append([frames EXCEPT ![Len(frames)].next = j + 1],
                                    Frame(adjacent[j], f.remaining - 1))
    /\ UNCHANGED <<gridVars, unitVars, viewVars, renderVars, algo, status, result, bfsVars, dfsVars,
                   ucsVars, path_tracker, depth_cap, upper_limit, current_max,
                   explored, biVars, expansion, runVars>>

\* mutant: explored.remove(current) left out
DLSBacktrackKeep ==
    /\ InDLS
    /\ LET f == Top(frames)
           adjacent == fetch_adjacent_nodes(f.node, rows, cols)
       IN  /\ f.next >= 1
           /\ \A j \in f.next..Len(adjacent) : ~Eligible(adjacent[j])
    /\ frames' = Pop(frames)
    /\ UNCHANGED <<gridVars, unitVars, viewVars, renderVars, algo, status, result, bfsVars, dfsVars,
                   ucsVars, path_tracker, depth_cap, upper_limit, current_max,
                   links, explored, biVars, expansion, runVars>>

\* the loop is over: explored.remove(current); return None
DLSBacktrack ==
    /\ InDLS
    /\ LET f == Top(frames)
           adjacent == fetch_adjacent_nodes(f.node, rows, cols)
       IN  /\ f.next >= 1
           /\ \A j \in f.next..Len(adjacent) : ~Eligible(adjacent[j])
           /\ explored' = explored \ {f.node}
    /\ frames' = Pop(frames)
    /\ UNCHANGED <<gridVars, unitVars, viewVars, renderVars, algo, status, result, bfsVars, dfsVars,
                   ucsVars, path_tracker, depth_cap, upper_limit, current_max,
                   links, biVars, expansion, runVars>>

\* ---- run_bi_search ----------------------------------------------------------
\* run_bi_search up to its while loop
BeginBi ==
    /\ algo' = "bi" /\ status' = "running" /\ result' = None
    /\ ClearRender({start_pos, goal_pos})
    /\ fwd_work' = <<start_pos>> /\ bwd_work' = <<goal_pos>>
    /\ fwd_map' = (start_pos :> None) /\ bwd_map' = (goal_pos :> None)
    /\ side' = "fwd"
    /\ fwd_pops' = 0 /\ bwd_pops' = 0
    /\ expansion' = << >>
    /\ run_no' = run_no + 1
    /\ UNCHANGED <<gridVars, unitVars, display, bfsVars, dfsVars, ucsVars,
                   path_tracker, dlsVars>>

StartBi ==
    /\ CanStart
    /\ BeginBi
    /\ UNCHANGED <<latency, previous>>

\* "while scanner is not None: part.append(scanner); scanner = links[scanner]"
RECURSIVE Chain(_, _, _, _)
Chain(link_map, scanner, part, fuel) ==
    IF scanner = None
    THEN [outcome |-> "path", path |-> part]
    ELSE IF scanner \notin DOMAIN link_map
    THEN [outcome |-> "KeyError", path |-> << >>]
    ELSE IF fuel = 0
    THEN [outcome |-> "loop", path |-> << >>]
    ELSE Chain(link_map, link_map[scanner], Append(part, scanner), fuel - 1)

\* mutant: the backward walk starts at junction, not at b_links[junction]
bridge_from_junction(f_links, b_links, junction) ==
    LET f_part == Chain(f_links, junction, << >>,
                        Cardinality(DOMAIN f_links) + 1)
        b_part == Chain(b_links, junction, << >>,
                        Cardinality(DOMAIN b_links) + 1)
    IN  IF f_part.outcome # "path" THEN f_part
        ELSE IF b_part.outcome # "path" THEN b_part
        ELSE [outcome |-> "path", path |-> Reverse(f_part.path) \o b_part.path]

bridge_bi_directional_paths(f_links, b_links, junction) ==
    LET f_part == Chain(f_links, junction, << >>,
                        Cardinality(DOMAIN f_links) + 1)
        b_part == IF junction \in DOMAIN b_links
                  THEN Chain(b_links, b_links[junction], << >>,
                             Cardinality(DOMAIN b_links) + 1)
                  ELSE [outcome |-> "KeyError", path |-> << >>]
    IN  IF f_part.outcome # "path" THEN f_part
        ELSE IF b_part.outcome # "path" THEN b_part
        ELSE [outcome |-> "path", path |-> Reverse(f_part.path) \o b_part.path]

\* mutant: the is_traversable test left out of the neighbour loops
RECURSIVE BiDiscoverThroughWalls(_, _, _, _)
BiDiscoverThroughWalls(node, adj, i, st) ==
    IF i > Len(adj) THEN st
    ELSE LET \* st after the loop body has run for adj[i]
             after(s) ==
                 IF adj[i] \notin DOMAIN s.map
                 THEN
                    [map |-> (adj[i] :> node) @@ s.map,
                     work |-> Append(s.work, adj[i]),
                     front |-> s.front \cup {adj[i]}]
                 ELSE s
         IN  BiDiscoverThroughWalls(node, adj, i + 1,
                    CHOOSE t \in {after(s) : s \in {st}} : TRUE)

RECURSIVE BiDiscover(_, _, _, _)
BiDiscover(node, adj, i, st) ==
    IF i > Len(adj) THEN st
    ELSE LET \* st after the loop body has run for adj[i]
             after(s) ==
                 IF adj[i] \notin DOMAIN s.map /\ is_traversable(adj[i])
                 THEN
                    [map |-> (adj[i] :> node) @@ s.map,
                     work |-> Append(s.work, adj[i]),
                     front |-> s.front \cup {adj[i]}]
                 ELSE s
         IN  BiDiscover(node, adj, i + 1,
                    CHOOSE t \in {after(s) : s \in {st}} : TRUE)

BiMeet(junction) ==
    LET br == bridge_bi_directional_paths(fwd_map, bwd_map, junction)
    IN  /\ history' = history \cup {junction}
        /\ expansion' = Append(expansion, junction)
        /\ status' = br.outcome
        /\ result' = IF br.outcome = "path" THEN br.path ELSE None
        /\ trajectory' = IF br.outcome = "path" THEN br.path ELSE trajectory
        /\ active_node' = IF br.outcome = "path" THEN None ELSE junction
        /\ display' = IF br.outcome = "path"
                      THEN refresh_view(front_nodes, history \cup {junction},
                                        None, br.path)
                      ELSE refresh_view(front_nodes, history \cup {junction},
                                        junction, trajectory)

InBi == algo = "bi" /\ status = "running"

\* mutant: the forward half looks node_f up in bwd_map only after its for loop
BiForwardMeetLate ==
    /\ InBi /\ side = "fwd"
    /\ fwd_work # << >> /\ bwd_work # << >>
    /\ Head(fwd_work) \in DOMAIN bwd_map
    /\ LET node_f == Head(fwd_work)
           st == BiDiscover(node_f, fetch_adjacent_nodes(node_f, rows, cols), 1,
                    [map |-> fwd_map, work |-> Tail(fwd_work),
                     front |-> front_nodes])
       IN  /\ fwd_map' = st.map
           /\ fwd_work' = st.work
    /\ BiMeet(Head(fwd_work))
    /\ fwd_pops' = fwd_pops + 1
    /\ UNCHANGED <<gridVars, unitVars, latency, front_nodes, algo, bfsVars, dfsVars, ucsVars,
                   path_tracker, dlsVars, bwd_work, bwd_pops, bwd_map, side,
                   runVars>>

BiForwardMeet ==
    /\ InBi /\ side = "fwd"
    /\ fwd_work # << >> /\ bwd_work # << >>
    /\ Head(fwd_work) \in DOMAIN bwd_map
    /\ fwd_work' = Tail(fwd_work)
    /\ BiMeet(Head(fwd_work))
    /\ fwd_pops' = fwd_pops + 1
    /\ UNCHANGED <<gridVars, unitVars, latency, front_nodes, algo, bfsVars, dfsVars, ucsVars,
                   path_tracker, dlsVars, bwd_work, bwd_pops, fwd_map, bwd_map, side,
                   runVars>>

BiForwardExpand ==
    /\ InBi /\ side = "fwd"
    /\ fwd_work # << >> /\ bwd_work # << >>
    /\ LET node_f == Head(fwd_work)
           st == BiDiscover(node_f, fetch_adjacent_nodes(node_f, rows, cols), 1,
                    [map |-> fwd_map, work |-> Tail(fwd_work),
                     front |-> front_nodes])
       IN  /\ node_f \notin DOMAIN bwd_map
           /\ node_f # None
           /\ active_node' = node_f
           /\ display' = refresh_view(front_nodes, history \cup {node_f},
                                      node_f, trajectory)
           /\ history' = history \cup {node_f}
           /\ expansion' = Append(expansion, node_f)
           /\ fwd_map' = st.map
           /\ fwd_work' = st.work
           /\ front_nodes' = st.front
    /\ side' = "bwd"
    /\ fwd_pops' = fwd_pops + 1
    /\ UNCHANGED <<gridVars, unitVars, latency, trajectory, algo, status, result, bfsVars, dfsVars,
                   ucsVars, path_tracker, dlsVars, bwd_work, bwd_pops, bwd_map, runVars>>

BiBackwardMeet ==
    /\ InBi /\ side = "bwd"
    /\ Head(bwd_work) \in DOMAIN fwd_map
    /\ bwd_work' = Tail(bwd_work)
    /\ BiMeet(Head(bwd_work))
    /\ bwd_pops' = bwd_pops + 1
    /\ UNCHANGED <<gridVars, unitVars, latency, front_nodes, algo, bfsVars, dfsVars, ucsVars,
                   path_tracker, dlsVars, fwd_work, fwd_pops, fwd_map, bwd_map, side,
                   runVars>>

\* mutant: the backward half expands node_b without looking it up in fwd_map
BiBackwardExpandMet ==
    /\ InBi /\ side = "bwd"
    /\ LET node_b == Head(bwd_work)
           st == BiDiscover(node_b, fetch_adjacent_nodes(node_b, rows, cols), 1,
                    [map |-> bwd_map, work |-> Tail(bwd_work),
                     front |-> front_nodes])
       IN  /\ node_b # None
           /\ active_node' = node_b
           /\ display' = refresh_view(front_nodes, history \cup {node_b},
                                      node_b, trajectory)
           /\ history' = history \cup {node_b}
           /\ expansion' = Append(expansion, node_b)
           /\ bwd_map' = st.map
           /\ bwd_work' = st.work
           /\ front_nodes' = st.front
    /\ side' = "fwd"
    /\ bwd_pops' = bwd_pops + 1
    /\ UNCHANGED <<gridVars, unitVars, latency, trajectory, algo, status, result, bfsVars, dfsVars,
                   ucsVars, path_tracker, dlsVars, fwd_work, fwd_pops, fwd_map, runVars>>

BiBackwardExpand ==
    /\ InBi /\ side = "bwd"
    /\ LET node_b == Head(bwd_work)
           st == BiDiscover(node_b, fetch_adjacent_nodes(node_b, rows, cols), 1,
                    [map |-> bwd_map, work |-> Tail(bwd_work),
                     front |-> front_nodes])
       IN  /\ node_b \notin DOMAIN fwd_map
           /\ node_b # None
           /\ active_node' = node_b
           /\ display' = refresh_view(front_nodes, history \cup {node_b},
                                      node_b, trajectory)
           /\ history' = history \cup {node_b}
           /\ expansion' = Append(expansion, node_b)
           /\ bwd_map' = st.map
           /\ bwd_work' = st.work
           /\ front_nodes' = st.front
    /\ side' = "fwd"
    /\ bwd_pops' = bwd_pops + 1
    /\ UNCHANGED <<gridVars, unitVars, latency, trajectory, algo, status, result, bfsVars, dfsVars,
                   ucsVars, path_tracker, dlsVars, fwd_work, fwd_pops, fwd_map, runVars>>

\* fetch_adjacent_nodes(None, ...) in either half of a round: TypeError
BiForwardTypeError ==
    /\ InBi /\ side = "fwd"
    /\ fwd_work # << >> /\ bwd_work # << >>
    /\ Head(fwd_work) = None
    /\ None \notin DOMAIN bwd_map
    /\ fwd_work' = Tail(fwd_work)
    /\ active_node' = None
    /\ display' = refresh_view(front_nodes, history \cup {None}, None,
                               trajectory)
    /\ history' = history \cup {None}
    /\ expansion' = Append(expansion, None)
    /\ status' = "TypeError" /\ result' = None
    /\ fwd_pops' = fwd_pops + 1
    /\ UNCHANGED <<gridVars, unitVars, latency, front_nodes, trajectory, algo, bfsVars, dfsVars,
                   ucsVars, path_tracker, dlsVars, bwd_work, bwd_pops, fwd_map, bwd_map,
                   side, runVars>>

BiBackwardTypeError ==
    /\ InBi /\ side = "bwd"
    /\ Head(bwd_work) = None
    /\ None \notin DOMAIN fwd_map
    /\ bwd_work' = Tail(bwd_work)
    /\ active_node' = None
    /\ display' = refresh_view(front_nodes, history \cup {None}, None,
                               trajectory)
    /\ history' = history \cup {None}
    /\ expansion' = Append(expansion, None)
    /\ status' = "TypeError" /\ result' = None
    /\ bwd_pops' = bwd_pops + 1
    /\ UNCHANGED <<gridVars, unitVars, latency, front_nodes, trajectory, algo, bfsVars, dfsVars,
                   ucsVars, path_tracker, dlsVars, fwd_work, fwd_pops, fwd_map, bwd_map,
                   side, runVars>>

\* "while fwd_work and bwd_work" fails
BiExhausted ==
    /\ InBi /\ side = "fwd"
    /\ ~(fwd_work # << >> /\ bwd_work # << >>)
    /\ status' = "none" /\ result' = None
    /\ UNCHANGED <<gridVars, unitVars, viewVars, renderVars, algo, bfsVars, dfsVars, ucsVars,
                   path_tracker, dlsVars, biVars, expansion, runVars>>

Next ==
    \/ StartBFS \/ BFSExpand \/ BFSGoal \/ BFSExhausted
    \/ StartDFS \/ DFSSkip \/ DFSExpand \/ DFSGoal \/ DFSExhausted
    \/ StartUCS \/ UCSSkip \/ UCSExpand \/ UCSGoal \/ UCSExhausted
    \/ StartDLS \/ DLSExhausted
    \/ StartIDDFS \/ IDDFSIterate \/ IDDFSExhausted
    \/ DLSGoal \/ DLSCutoff \/ DLSEnter \/ DLSDescend \/ DLSBacktrack
    \/ StartBi \/ BiForwardMeet \/ BiForwardExpand
    \/ BiBackwardMeet \/ BiBackwardExpand \/ BiExhausted

Spec == Init /\ [][Next]_vars

\* a call, once made, keeps running: the program is one thread and every
\* step of a search is followed by the next
InitLive ==
    /\ GridsUpTo(MaxLiveCells)
    /\ NoCall
    /\ NoProbe
    /\ Headless

SpecLive == InitLive /\ [][Next]_vars /\ WF_vars(Next)

\* run_ucs alone, called up to MaxRuns times on one grid
NextUCS ==
    \/ StartUCS \/ UCSSkip \/ UCSExpand \/ UCSGoal \/ UCSExhausted
    \/ RerunUCS

SpecUCS == Init /\ [][NextUCS]_vars

\* ---- the searches with and without drawing -----------------------------------
\* SearchTechniques(nav_grid, wait_time) with wait_time 0 or positive
InitRender ==
    /\ GridsUpTo(MaxRenderCells)
    /\ NoCall
    /\ NoProbe
    /\ latency \in {0, 1}

\* the call that has returned is made again on the same grid, with the same
\* argument, through an engine of the other wait_time; front_nodes, history,
\* active_node and trajectory are what the first call left behind
RunAgain ==
    /\ status \notin {"idle", "running"}
    /\ run_no < MaxRuns
    /\ previous' = [status |-> status, result |-> result,
                    expansion |-> expansion]
    /\ latency' = 1 - latency
    /\ \/ algo = "bfs" /\ BeginBFS
       \/ algo = "dfs" /\ BeginDFS
       \/ algo = "ucs" /\ BeginUCS
       \/ algo = "dls" /\ BeginDLS(depth_cap)
       \/ algo = "iddfs" /\ BeginIDDFS(upper_limit)
       \/ algo = "bi" /\ BeginBi

NextRender == Next \/ RunAgain

SpecRender == InitRender /\ [][NextRender]_vars

\* ---- PathfindingHeap on its own -----------------------------------------------
\* PathfindingHeap() leaves _data empty and _insertion_order 0, as NoCall does;
\* the grid plays no part
InitHeap ==
    /\ SetGrid(ScenarioGrid)
    /\ NoCall
    /\ NoProbe
    /\ Headless

\* push(entry, rank): heappush of (rank, _insertion_order, entry), then the
\* counter goes up
HeapPushOp ==
    /\ pushes < MaxPushes
    /\ \E entry \in Cells(1, 2), rank \in 0..MaxRank :
        /\ heap_data' = HeapPush(heap_data, insertion_order, entry, rank)
        /\ last_op' = [op |-> "push", before |-> heap_data, count |-> pushes,
                       tuple |-> CHOOSE t \in heap_data' \ heap_data : TRUE]
    /\ insertion_order' = insertion_order + 1
    /\ pushes' = pushes + 1
    /\ UNCHANGED <<gridVars, renderVars, viewVars, algo, status, result, bfsVars, dfsVars,
                   permanent_set, accumulated_costs, path_tracker, dlsVars,
                   biVars, expansion, runVars, pops, probe>>

\* pop(): heappop(_data)[2]
HeapPopOp ==
    /\ \E e \in heap_data :
        /\ HeapTop(e, heap_data)
        /\ heap_data' = heap_data \ {e}
        /\ last_op' = [op |-> "pop", before |-> heap_data, count |-> pops,
                       tuple |-> e]
    /\ pops' = pops + 1
    /\ UNCHANGED <<gridVars, renderVars, viewVars, algo, status, result, bfsVars, dfsVars,
                   insertion_order, permanent_set, accumulated_costs,
                   path_tracker, dlsVars, biVars, expansion, runVars, pushes,
                   probe>>

\* pop() on an empty heap: heappop raises IndexError, nothing is removed
HeapPopEmpty ==
    /\ heap_data = {}
    /\ last_op' = [op |-> "IndexError"]
    /\ UNCHANGED <<gridVars, renderVars, viewVars, algo, status, result, bfsVars, dfsVars,
                   ucsVars, path_tracker, dlsVars, biVars, expansion, runVars,
                   pushes, pops, probe>>

NextHeap == HeapPushOp \/ HeapPopOp \/ HeapPopEmpty

SpecHeap == InitHeap /\ [][NextHeap]_vars

\* ---- fetch_adjacent_nodes on its own ------------------------------------------
\* any coordinate, on or off the grid, and any grid size within the bounds
InitAdjacent ==
    /\ SetGrid(ScenarioGrid)
    /\ NoCall
    /\ Headless
    /\ \E r \in -1..MaxRows, c \in -1..MaxCols :
        \E max_r \in 0..MaxRows, max_c \in 0..MaxCols :
            probe = [op |-> "call", location |-> <<r, c>>,
                     max_r |-> max_r, max_c |-> max_c]

FetchAdjacent ==
    /\ probe.op = "call"
    /\ probe' = [op |-> "return", location |-> probe.location,
                 max_r |-> probe.max_r, max_c |-> probe.max_c,
                 neighbors |-> fetch_adjacent_nodes(probe.location,
                                                    probe.max_r, probe.max_c)]
    /\ UNCHANGED <<gridVars, renderVars, viewVars, algo, status, result, bfsVars, dfsVars,
                   ucsVars, path_tracker, dlsVars, biVars, expansion, runVars,
                   heapLog>>

NextAdjacent == FetchAdjacent

SpecAdjacent == InitAdjacent /\ [][NextAdjacent]_vars

\* ---- trace_back_path on its own ------------------------------------------------
\* any parent map over MaxLinks cells (each key mapped to a cell or to None),
\* any target and any origin among them
TraceCells == {<<0, k>> : k \in 0..(MaxLinks - 1)}

InitTrace ==
    /\ SetGrid(ScenarioGrid)
    /\ NoCall
    /\ Headless
    /\ \E keys \in SUBSET TraceCells :
        \E link_map \in [keys -> TraceCells \cup {None}] :
            \E target \in TraceCells, origin \in TraceCells :
                probe = [op |-> "call", link_map |-> link_map,
                         target |-> target, origin |-> origin]

TraceBackCall ==
    /\ probe.op = "call"
    /\ LET tb == trace_back_path(probe.link_map, probe.target, probe.origin)
       IN  probe' = [op |-> "return", link_map |-> probe.link_map,
                     target |-> probe.target, origin |-> probe.origin,
                     outcome |-> tb.outcome, path |-> tb.path]
    /\ UNCHANGED <<gridVars, renderVars, viewVars, algo, status, result, bfsVars, dfsVars,
                   ucsVars, path_tracker, dlsVars, biVars, expansion, runVars,
                   heapLog>>

NextTrace == TraceBackCall

SpecTrace == InitTrace /\ [][NextTrace]_vars

\* ---- a grid whose fields were set by the caller ------------------------------
\* NavigationGrid keeps start_pos, goal_pos and matrix in plain attributes
\* (None, None after line 20 of grid.py) and create_custom_grid assigns them
\* unchecked; no search looks at them before its loop.  InitMalformed draws a
\* grid with no start, no goal, start equal to goal, or start or goal on a
\* Blocked cell.
CellBlocked(pos) == pos \in DOMAIN matrix /\ matrix[pos] = CELL_BLOCK

Malformed ==
    \/ start_pos = None
    \/ goal_pos = None
    \/ start_pos = goal_pos
    \/ CellBlocked(start_pos)
    \/ CellBlocked(goal_pos)

AssignedMatrix(r, c, blocks, s, g) ==
    [p \in Cells(r, c) |->
        IF p \in blocks THEN CELL_BLOCK
        ELSE IF p = g THEN CELL_GOAL
        ELSE IF p = s THEN CELL_BEGIN
        ELSE CELL_OPEN]

InitMalformed ==
    /\ \E r \in 1..MaxRows, c \in 1..MaxCols :
            /\ r * c <= MaxCells
            /\ \E s \in Cells(r, c) \cup {None}, g \in Cells(r, c) \cup {None} :
                \E b \in SUBSET Cells(r, c) :
                    /\ Cardinality(b) <= MaxBlocked
                    /\ rows = r /\ cols = c
                    /\ start_pos = s /\ goal_pos = g
                    /\ matrix = AssignedMatrix(r, c, b, s, g)
    /\ Malformed
    /\ NoCall
    /\ NoProbe
    /\ Headless

\* run_bfs and run_bi_search on such a grid
NextMalformed ==
    \/ StartBFS \/ BFSExpand \/ BFSGoal \/ BFSExhausted \/ BFSTypeError
    \/ StartBi \/ BiForwardMeet \/ BiForwardExpand \/ BiForwardTypeError
    \/ BiBackwardMeet \/ BiBackwardExpand \/ BiBackwardTypeError
    \/ BiExhausted

SpecMalformed == InitMalformed /\ [][NextMalformed]_vars

\* ---- the grid as a graph, for stating the properties -----------------------
SixOffsets == {<<-1, 0>>, <<0, 1>>, <<1, 0>>, <<1, 1>>, <<0, -1>>, <<-1, -1>>}

OpenCells == {p \in Cells(rows, cols) : matrix[p] # CELL_BLOCK}

Joined(a, b) == <<b[1] - a[1], b[2] - a[2]>> \in SixOffsets

Min(S) == CHOOSE x \in S : \A y \in S : x <= y

\* fewest steps from src to every open cell that can be reached from it
RECURSIVE Layer(_, _, _)
Layer(dist, frontier, d) ==
    IF frontier = {} THEN dist
    ELSE LET nxt == {q \in OpenCells \ DOMAIN dist :
                        \E p \in frontier : Joined(p, q)}
         IN  Layer([q \in nxt |-> d + 1] @@ dist, nxt, d + 1)

StepsFrom(src) == Layer((src :> 0), {src}, 0)

GoalReachable == goal_pos \in DOMAIN StepsFrom(start_pos)

FewestSteps == StepsFrom(start_pos)[goal_pos]

Weight(a, b) == IF a[1] # b[1] /\ a[2] # b[2] THEN 1414 ELSE 1000

\* cheapest cost from src to every open cell that can be reached from it
RECURSIVE Settle(_)
Settle(cost) ==
    LET via(q) == {cost[p] + Weight(p, q) : p \in {x \in DOMAIN cost : Joined(x, q)}}
        old(q) == IF q \in DOMAIN cost THEN {cost[q]} ELSE {}
        new == [q \in {x \in OpenCells : x \in DOMAIN cost \/ via(x) # {}} |->
                    Min(via(q) \cup old(q))]
    IN  IF new = cost THEN cost ELSE Settle(new)

CostsFrom(src) == Settle((src :> 0))

RECURSIVE PathCost(_)
PathCost(path) ==
    IF Len(path) <= 1 THEN 0
    ELSE Weight(path[1], path[2]) + PathCost(Tail(path))

Returned == status \notin {"idle", "running"}

IsPrefix(s, t) == Len(s) <= Len(t) /\ \A i \in 1..Len(s) : s[i] = t[i]

\* ---- properties -------------------------------------------------------------

\* C1: whenever one of the six searches returns a path, the path's first cell
\* is the grid's start and its last cell is the grid's goal.
EndpointCorrectness ==
    status = "path" =>
        /\ Len(result) >= 1
        /\ result[1] = start_pos
        /\ result[Len(result)] = goal_pos

\* a bidirectional search has returned a bridged path of three cells or more
EndpointWitness ==
    status = "path" /\ algo = "bi" /\ Len(result) >= 3

\* C2: in every returned path each consecutive pair of cells differs by one
\* of the six offsets, the backward half of a bidirectional path included.
AdjacencyValidity ==
    status = "path" =>
        \A i \in 1..(Len(result) - 1) : Joined(result[i], result[i + 1])

\* a bidirectional path whose meeting cell is neither end, so that both
\* halves contribute steps
AdjacencyWitness ==
    /\ status = "path" /\ algo = "bi"
    /\ expansion[Len(expansion)] \notin {start_pos, goal_pos}
    /\ Len(result) >= 4

\* C3: when the goal can be reached from the start, run_bfs, run_ucs and
\* run_bi_search return a path, never None; run_bi_search does not leave its
\* loop on an emptied queue.
Completeness ==
    (algo \in {"bfs", "ucs", "bi"} /\ GoalReachable) =>
        /\ Returned => status = "path"
        /\ (algo = "bi" /\ side = "fwd" /\ status = "running")
                => (fwd_work # << >> /\ bwd_work # << >>)

\* run_bi_search returned a path by a meeting found with the pop that
\* emptied a queue
CompletenessWitness ==
    /\ algo = "bi" /\ status = "path"
    /\ fwd_work = << >> \/ bwd_work = << >>
    /\ \E p \in Cells(rows, cols) : matrix[p] = CELL_BLOCK

\* C4: when no chain of open cells joins start and goal, every search returns
\* None and none of them faults.
NoPathCase ==
    (Returned /\ ~GoalReachable) => (status = "none" /\ result = None)

\* an iterative-deepening search that gave up on a walled-off goal
NoPathWitness ==
    /\ algo = "iddfs" /\ status = "none" /\ ~GoalReachable
    /\ upper_limit >= 2

\* C5: a path returned by run_bfs has the fewest steps of all start-to-goal
\* paths through open cells.
BFSOptimality ==
    (algo = "bfs" /\ status = "path") => Len(result) - 1 = FewestSteps

\* run_bfs returned a path of three steps or more around a wall
BFSOptimalityWitness ==
    /\ algo = "bfs" /\ status = "path" /\ Len(result) >= 4
    /\ \E p \in Cells(rows, cols) : matrix[p] = CELL_BLOCK

\* C6: a path returned by run_ucs has the least total step cost (1000 per
\* orthogonal step, 1414 per diagonal step) of all start-to-goal paths.
UCSOptimality ==
    (algo = "ucs" /\ status = "path") =>
        PathCost(result) = CostsFrom(start_pos)[goal_pos]

\* run_ucs returned a path although some open cell off that path lies on a
\* route of as few steps that costs more
UCSOptimalityWitness ==
    /\ algo = "ucs" /\ status = "path"
    /\ \E p \in DOMAIN StepsFrom(start_pos) \ Range(result) :
        /\ StepsFrom(start_pos)[p] + StepsFrom(goal_pos)[p] = Len(result) - 1
        /\ CostsFrom(start_pos)[p] + CostsFrom(goal_pos)[p] > PathCost(result)

\* C7: run_iddfs(upper_limit) returns a path whenever the goal is within
\* upper_limit steps of the start.
IDDFSCompleteness ==
    (algo = "iddfs" /\ Returned /\ GoalReachable /\ FewestSteps <= upper_limit)
        => status = "path"

\* run_iddfs found a goal that needed its whole budget of three or more steps
IDDFSCompletenessWitness ==
    /\ algo = "iddfs" /\ status = "path"
    /\ upper_limit >= 3 /\ FewestSteps = upper_limit

\* C8: a path returned by run_dls(depth_cap) has at most depth_cap + 1 cells,
\* and run_dls returns None when the goal is more than depth_cap steps away.
DLSDepthBound ==
    (algo = "dls" /\ Returned) =>
        /\ status = "path" => Len(result) <= depth_cap + 1
        /\ (GoalReachable /\ FewestSteps > depth_cap) => status = "none"

\* run_dls used its whole budget: the path has exactly depth_cap + 1 cells
DLSDepthBoundWitness ==
    /\ algo = "dls" /\ status = "path"
    /\ depth_cap >= 2 /\ Len(result) = depth_cap + 1

\* C9: a second run_ucs on the same grid expands the same cells in the same
\* order as the first and returns the same path.
UCSDeterminism ==
    (algo = "ucs" /\ run_no >= 2) =>
        /\ IsPrefix(expansion, previous.expansion)
        /\ Returned =>
            /\ status = previous.status
            /\ result = previous.result
            /\ expansion = previous.expansion

\* the second run returned a path on a grid where some open cell off that
\* path lies on another path of the same cheapest cost
UCSDeterminismWitness ==
    /\ algo = "ucs" /\ run_no >= 2 /\ status = "path"
    /\ \E p \in DOMAIN StepsFrom(start_pos) \ Range(result) :
        CostsFrom(start_pos)[p] + CostsFrom(goal_pos)[p]
            = CostsFrom(start_pos)[goal_pos]

OnScenarioGrid ==
    /\ rows = 8 /\ cols = 8
    /\ start_pos = <<4, 4>> /\ goal_pos = <<3, 4>>
    /\ OpenCells = Cells(8, 8)

\* C10: on the open 8x8 grid with start (4,4) and goal (3,4), run_bfs,
\* run_dfs, run_ucs, run_dls with depth_cap >= 1 and run_iddfs with
\* upper_limit >= 1 return exactly [(4,4), (3,4)].
ScenarioUp ==
    (/\ OnScenarioGrid
     /\ Returned
     /\ \/ algo \in {"bfs", "dfs", "ucs"}
        \/ algo = "dls" /\ depth_cap >= 1
        \/ algo = "iddfs" /\ upper_limit >= 1)
        => (status = "path" /\ result = << <<4, 4>>, <<3, 4>> >>)

\* run_dfs has returned on the scenario grid
ScenarioUpWitness ==
    OnScenarioGrid /\ algo = "dfs" /\ status = "path"

\* the Blocked cells are exactly column w in every row but row 0, and start
\* and goal lie in columns on opposite sides of w
VerticalWall(w) ==
    /\ rows >= 2
    /\ {p \in Cells(rows, cols) : matrix[p] = CELL_BLOCK}
            = {<<r, w>> : r \in 1..(rows - 1)}
    /\ \/ start_pos[2] < w /\ w < goal_pos[2]
       \/ goal_pos[2] < w /\ w < start_pos[2]

\* C11: on a grid whose only walls are one column blocked in every row except
\* row 0, with start and goal on opposite sides of it, every returned path
\* contains that column's row-0 cell.
ThroughRowZero ==
    \A w \in 0..(cols - 1) :
        (status = "path" /\ VerticalWall(w)) => <<0, w>> \in Range(result)

\* run_bi_search returned a path across such a wall, start and goal both
\* below row 0
ThroughRowZeroWitness ==
    /\ algo = "bi" /\ status = "path"
    /\ start_pos[1] >= 1 /\ goal_pos[1] >= 1
    /\ \E w \in 0..(cols - 1) : VerticalWall(w)

\* C12: a search invoked on a malformed grid fails with a configuration error
\* before any cell is expanded; it returns neither a path nor None.
ConfigurationError ==
    (Malformed /\ algo # "idle") =>
        /\ status \notin {"path", "none"}
        /\ expansion = << >>

\* C13: on a PathfindingHeap driven by any pushes and pops, pop returns a stored
\* entry of the least stored rank and, among the stored entries of that rank,
\* the one pushed first (push numbers its entries 0, 1, 2, ...); is_empty
\* holds exactly when as many entries were popped as were pushed.
HeapFifoOrder ==
    /\ last_op.op = "push" => last_op.tuple.order = last_op.count
    /\ last_op.op = "pop" =>
        /\ last_op.tuple \in last_op.before
        /\ \A f \in last_op.before :
            /\ last_op.tuple.rank <= f.rank
            /\ f.rank = last_op.tuple.rank => last_op.tuple.order <= f.order
    /\ (heap_data = {}) <=> (pushes = pops)

\* a pop chose between two stored entries of the same least rank while an
\* entry of a higher rank, pushed before both, stayed behind
HeapFifoOrderWitness ==
    /\ last_op.op = "pop"
    /\ \E f \in last_op.before \ {last_op.tuple} : f.rank = last_op.tuple.rank
    /\ \E f \in last_op.before :
            f.rank > last_op.tuple.rank /\ f.order < last_op.tuple.order

\* the six directions in the order the claim gives them
ForwardOrder ==
    << <<-1, 0>>, <<0, 1>>, <<1, 0>>, <<1, 1>>, <<0, -1>>, <<-1, -1>> >>

Shifted(loc, k) == <<loc[1] + ForwardOrder[k][1], loc[2] + ForwardOrder[k][2]>>

DirectionOf(loc, q) == CHOOSE k \in 1..6 : Shifted(loc, k) = q

\* C14: fetch_adjacent_nodes((r,c), rows, cols) returns exactly the cells
\* (r+dr, c+dc) inside [0,rows) x [0,cols), each once, in the order up, right,
\* down, down-right, left, up-left.
AdjacentExact ==
    probe.op = "return" =>
        LET out == probe.neighbors
            loc == probe.location
        IN  /\ Range(out) =
                    {q \in {Shifted(loc, k) : k \in 1..6} :
                        /\ q[1] \in 0..(probe.max_r - 1)
                        /\ q[2] \in 0..(probe.max_c - 1)}
            /\ \A i \in 1..Len(out) : \A j \in (i + 1)..Len(out) :
                    DirectionOf(loc, out[i]) < DirectionOf(loc, out[j])

\* a call on a border cell: some directions, not all, fall off the grid
AdjacentExactWitness ==
    /\ probe.op = "return"
    /\ probe.location[1] \in 0..(probe.max_r - 1)
    /\ probe.location[2] \in 0..(probe.max_c - 1)
    /\ Len(probe.neighbors) \in 2..5

\* C15: no step of any search changes rows, cols, the matrix, start_pos or
\* goal_pos, whether the call ends with a path or with None; of the grid's
\* fields only front_nodes, history, active_node and trajectory change.
GridReadOnly ==
    [][algo' # "idle" => UNCHANGED gridVars]_vars

\* a search has returned a path and left its marks in the render state
GridReadOnlyWitness ==
    /\ status = "path"
    /\ Cardinality(history) >= 3
    /\ front_nodes # {}
    /\ Len(trajectory) >= 3

\* C16: drawing never influences a search: a call and its repetition on the
\* same grid, one with rendering on and one with rendering off, the second
\* starting from the front_nodes, history, active_node and trajectory the
\* first left behind, expand the same cells in the same order and return the
\* same result.
RenderIndependence ==
    (run_no >= 2 /\ Returned) =>
        /\ status = previous.status
        /\ result = previous.result
        /\ expansion = previous.expansion

\* a depth-limited search drew its frames, returned a path, and was repeated
\* without drawing over the marks it had left
RenderIndependenceWitness ==
    /\ run_no >= 2 /\ algo = "dls" /\ status = "path"
    /\ latency = 0 /\ display # None
    /\ Len(result) >= 3

\* the entries of link_map that the step replaces by another parent
Overwritten(before, after) ==
    {c \in DOMAIN before \cap DOMAIN after : after[c] # before[c]}

\* a step inside a call of run_bfs, run_ucs or run_bi_search
InsideSearch == algo \in {"bfs", "ucs", "bi"} /\ status = "running"

\* C17 as claimed: in run_bfs, run_ucs and run_bi_search an entry of the parent
\* map, once made, is never overwritten during the run.
ParentNeverOverwritten ==
    [][InsideSearch =>
        /\ Overwritten(path_tracker, path_tracker') = {}
        /\ Overwritten(fwd_map, fwd_map') = {}
        /\ Overwritten(bwd_map, bwd_map') = {}]_vars

\* C17 as amended: in run_bfs and run_bi_search an entry of the parent map is
\* never overwritten; in run_ucs it is overwritten only when the cell's
\* recorded cost strictly drops in the same step.
ParentOverwrittenOnlyCheaper ==
    [][InsideSearch =>
        /\ Overwritten(fwd_map, fwd_map') = {}
        /\ Overwritten(bwd_map, bwd_map') = {}
        /\ \A c \in Overwritten(path_tracker, path_tracker') :
            /\ algo = "ucs"
            /\ accumulated_costs'[c] < accumulated_costs[c]]_vars

\* run_ucs has replaced a parent: the heap holds a tuple whose rank is above
\* the cost now recorded for its cell
ParentOverwrittenWitness ==
    /\ algo = "ucs" /\ status = "running"
    /\ \E e \in heap_data : accumulated_costs[e.coord] < e.rank

\* C18: every call of one of the six searches returns: a call that is running
\* eventually has a path or None as its outcome, whatever duplicates its stack,
\* stale tuples its heap, or removals from explored its recursion goes through.
Termination == (status = "running") ~> (status \in {"path", "none"})

\* run_dls has unwound its whole recursion, every cell taken out of explored
\* again, and returned None
TerminationWitness ==
    /\ algo = "dls" /\ status = "none"
    /\ explored = {}
    /\ Len(expansion) > 1

\* C19: in run_dfs the cell expanded after a cell p other than the goal is the
\* first neighbour of p, in the order up, right, down, down-right, left,
\* up-left, that is traversable and not yet visited, whenever p has such a
\* neighbour; and no cell is expanded twice, the visited duplicates popped
\* from the stack being skipped.
ExpandedBefore(i) == {expansion[k] : k \in 1..i}

FirstUnvisited(i) ==
    SelectSeq(fetch_adjacent_nodes(expansion[i], rows, cols),
              LAMBDA n : is_traversable(n) /\ n \notin ExpandedBefore(i))

PoppedOnce(work, work_after, other_map) ==
    /\ expansion' = Append(expansion, Head(work))
    /\ IF Head(work) \in DOMAIN other_map
       THEN /\ status' = "path"
            /\ Head(work) \in Range(result')
            /\ work_after = Tail(work)
            /\ UNCHANGED <<fwd_map, bwd_map, front_nodes>>
       ELSE /\ status' = "running"
            /\ IsPrefix(Tail(work), work_after)

BiRoundStructure ==
    [][InBi =>
        /\ fwd_pops' \in {bwd_pops', bwd_pops' + 1}
        /\ \/ /\ fwd_pops = bwd_pops
              /\ fwd_pops' = fwd_pops + 1 /\ bwd_pops' = bwd_pops
              /\ PoppedOnce(fwd_work, fwd_work', bwd_map)
              /\ UNCHANGED <<bwd_work, bwd_map>>
           \/ /\ fwd_pops = bwd_pops + 1
              /\ bwd_pops' = bwd_pops + 1 /\ fwd_pops' = fwd_pops
              /\ PoppedOnce(bwd_work, bwd_work', fwd_map)
              /\ UNCHANGED <<fwd_work, fwd_map>>
           \/ /\ fwd_pops = bwd_pops
              /\ fwd_work = << >> \/ bwd_work = << >>
              /\ status' = "none"
              /\ UNCHANGED <<expansion, biVars>>]_vars

\* run_bi_search has returned from the backward half of its third or a later
\* round: the cell popped from bwd_work was in fwd_map
BiRoundStructureWitness ==
    /\ algo = "bi" /\ status = "path"
    /\ fwd_pops = bwd_pops /\ bwd_pops >= 3
    /\ expansion[Len(expansion)] \in DOMAIN fwd_map

\* C21: in run_ucs a cell enters permanent_set with the cheapest cost of any
\* path from the start to it as its accumulated cost; from then on its cost and
\* its parent entry stay as they are; and the call returns a path only in the
\* step that pops the goal and adds it to permanent_set.
UCSFinalized ==
    [][(algo = "ucs" /\ status = "running") =>
        /\ \A c \in permanent_set' \ permanent_set :
              accumulated_costs[c] = CostsFrom(start_pos)[c]
        /\ \A c \in permanent_set' :
              /\ accumulated_costs'[c] = accumulated_costs[c]
              /\ path_tracker'[c] = path_tracker[c]
        /\ permanent_set \subseteq permanent_set'
        /\ status' = "path" => goal_pos \in permanent_set' \ permanent_set]_vars

\* a cell whose cost was lowered before it was popped is in permanent_set, the
\* tuple of its dearer cost still in the heap
UCSFinalizedWitness ==
    /\ algo = "ucs" /\ status = "running"
    /\ \E e \in heap_data :
        /\ e.coord \in permanent_set
        /\ e.rank > accumulated_costs[e.coord]

\* C22: while run_dls or an iteration of run_iddfs is running, explored is the
\* set of the cells of the pending calls of the helper that are past
\* explored.add, and links leads from the cell of the innermost call through
\* the cells of the enclosing calls, in order, to the start, whose entry is None.
Started == {i \in 1..Len(frames) : frames[i].next >= 1}

DLSBranchScope ==
    (algo \in {"dls", "iddfs"} /\ status = "running") =>
        /\ explored = {frames[i].node : i \in Started}
        /\ \A i \in 1..(Len(frames) - 1) : i \in Started
        /\ \A i, j \in 1..Len(frames) : i # j => frames[i].node # frames[j].node
        /\ frames # << >> => frames[1].node = start_pos
        /\ \A i \in 1..Len(frames) :
              /\ frames[i].node \in DOMAIN links
              /\ links[frames[i].node] =
                    IF i = 1 THEN None ELSE frames[i - 1].node

\* a cell that was expanded and then removed from explored on backtrack has
\* been entered again from another cell: it is in explored, no call has yet
\* been made from this entry, and links still holds a child of the earlier one
DLSBranchScopeWitness ==
    /\ InDLS
    /\ Len(frames) >= 2
    /\ Top(frames).next = 1
    /\ Top(frames).node \in explored
    /\ \E x \in DOMAIN links : links[x] = Top(frames).node

\* C23: whenever run_bfs, run_dfs, run_ucs or the depth-limited helper is about
\* to call trace_back_path, the parent map leads from the goal to the start:
\* the walk meets no missing key and no cycle. No call of these searches ends
\* in a fault of the reconstruction.
AtTraceBack ==
    /\ status = "running"
    /\ \/ algo = "bfs" /\ work_queue # << >> /\ Head(work_queue) = goal_pos
       \/ /\ algo = "dfs" /\ work_stack # << >>
          /\ Top(work_stack) = goal_pos /\ goal_pos \notin visited_registry
       \/ /\ algo = "ucs" /\ goal_pos \notin permanent_set
          /\ \E e \in heap_data : HeapTop(e, heap_data) /\ e.coord = goal_pos
       \/ InDLS /\ Top(frames).next = 0 /\ Top(frames).node = goal_pos

ParentMap == IF algo \in {"dls", "iddfs"} THEN links ELSE path_tracker

TraceBackSafe ==
    /\ AtTraceBack =>
          trace_back_path(ParentMap, goal_pos, start_pos).outcome = "path"
    /\ (algo \in {"bfs", "dfs", "ucs", "dls", "iddfs"} /\ Returned) =>
          status \in {"path", "none"}

\* run_dfs is about to reconstruct the path and the goal's parent entry has
\* been overwritten: the goal was pushed more than once
TraceBackSafeWitness ==
    /\ AtTraceBack /\ algo = "dfs"
    /\ \E i \in 1..(Len(work_stack) - 1) : work_stack[i] = goal_pos
    /\ Len(trace_back_path(path_tracker, goal_pos, start_pos).path) >= 3

\* C24: when following the parent map from the target does not lead to the
\* origin, trace_back_path ends in an error: it does not return a path and it
\* does not go on for ever.
\* the cells met when following link_map from the cells of S
RECURSIVE Followed(_, _)
Followed(link_map, S) ==
    LET more == S \cup {link_map[x] : x \in S \cap DOMAIN link_map}
    IN  IF more = S THEN S ELSE Followed(link_map, more)

TraceBackFails ==
    (/\ probe.op = "return"
     /\ probe.origin \notin Followed(probe.link_map, {probe.target})) =>
        probe.outcome \notin {"path", "loop"}

\* C25: run_iddfs starts with the depth budget 0 and raises it by one for each
\* new depth-limited search, up to upper_limit, each search beginning with the
\* parent map {start: None} and an empty explored set; it returns at the first
\* budget whose search finds the goal, so that a returned path has the fewest
\* steps any start-to-goal path has, and it returns None only after the budget
\* upper_limit has failed.
IDDFSBudgets ==
    [][/\ (algo' = "iddfs" /\ status = "idle") =>
            current_max' = 0 /\ frames' = << >>
       /\ (algo = "iddfs" /\ status = "running") =>
            /\ (frames = << >> /\ status' = "running") =>
                  /\ current_max <= upper_limit
                  /\ frames' = <<Frame(start_pos, current_max)>>
                  /\ current_max' = current_max + 1
                  /\ links' = (start_pos :> None)
                  /\ explored' = {}
            /\ frames # << >> => current_max' = current_max
            /\ status' = "path" =>
                  /\ frames[1].remaining = FewestSteps
                  /\ Len(result') = FewestSteps + 1
            /\ status' = "none" =>
                  frames = << >> /\ current_max = upper_limit + 1]_vars

\* run_iddfs returned from its third or a later search with budgets to spare
IDDFSBudgetsWitness ==
    /\ algo = "iddfs" /\ status = "path"
    /\ current_max >= 3
    /\ current_max <= upper_limit
    /\ Len(result) = current_max

\* C26: a path returned by any of the six searches holds no cell twice. In a
\* path of run_bi_search the meeting cell, the last cell popped, stands at one
\* place only: up to it the path follows fwd_map back to the start, after it
\* bwd_map on to the goal, and the two parts have no cell in common.
Junction == expansion[Len(expansion)]

SimplePaths ==
    status = "path" =>
        /\ \A i, j \in 1..Len(result) : i # j => result[i] # result[j]
        /\ algo = "bi" =>
              \E k \in 1..Len(result) :
                  /\ result[k] = Junction
                  /\ \A i \in 1..(k - 1) : fwd_map[result[i + 1]] = result[i]
                  /\ \A i \in k..(Len(result) - 1) :
                        bwd_map[result[i]] = result[i + 1]
                  /\ {result[i] : i \in 1..k}
                        \cap {result[i] : i \in (k + 1)..Len(result)} = {}

\* run_bi_search met strictly between start and goal, with at least two cells
\* in the part before the meeting cell and two in the part after it
SimplePathsWitness ==
    /\ algo = "bi" /\ status = "path"
    /\ \E k \in 3..(Len(result) - 2) : result[k] = Junction

\* C27: on a grid whose start and goal are open cells, every cell of a returned
\* path lies inside the grid and is not Blocked, and no search expands a
\* Blocked cell or gives one an entry in its parent map.
Recorded ==
    DOMAIN path_tracker \cup DOMAIN links \cup DOMAIN fwd_map \cup DOMAIN bwd_map

WallsUntouched ==
    /\ status = "path" =>
          \A i \in 1..Len(result) :
              /\ InBounds(result[i], rows, cols)
              /\ matrix[result[i]] # CELL_BLOCK
    /\ \A c \in Range(expansion) \cup Recorded :
          InBounds(c, rows, cols) /\ matrix[c] # CELL_BLOCK

\* the depth-limited helper returned a path after expanding a cell next to a
\* Blocked cell
WallsUntouchedWitness ==
    /\ algo \in {"dls", "iddfs"} /\ status = "path"
    /\ \E c \in Range(expansion) :
        \E b \in Cells(rows, cols) : Joined(c, b) /\ matrix[b] = CELL_BLOCK

====
